---- MODULE Spec2Model ----
(***************************************************************************)
(* The multi-turn flow orchestration of the AirlineChat API gateway        *)
(* (api-gateway/index.js): the registry of socket sessions, the 'identify',*)
(* 'message' and 'disconnect' handlers, and the adapter / composer calls   *)
(* a message turn makes.  A message turn is an async function: it is cut   *)
(* into one action per await, so that turns of different messages          *)
(* interleave exactly where the JavaScript event loop lets them.           *)
(***************************************************************************)
EXTENDS Integers, Sequences, FiniteSets, TLC

(***************************************************************************)
(* Bounds of the model.                                                    *)
(***************************************************************************)
\* message turns in flight at the same time (SpecAsync)
MaxInFlight == 2
\* session objects alive at the same time
MaxSessions == 2
\* largest nextStep the classifier returns
MaxStep == 2
\* messages (welcome, user and assistant messages) kept at the same time
MaxMessages == 5
\* the clock stops at MaxClock half hours
MaxClock == 3
\* Date.now() stops at MaxMillis milliseconds
MaxMillis == 2
\* items kept in the container at the same time
MaxItems == 4

(***************************************************************************)
(* Values.                                                                 *)
(***************************************************************************)
\* null / undefined of a string-valued field (activeFlow, flow, response)
NULL == "null"
\* null / undefined of currentStep and nextStep
NullStep == 0
\* userSessions[socket.id] is undefined
NoSession == 0
\* no message (yet)
NoMessage == 0
\* getConversationHistory(userId, limit = 20)
HistoryLimit == 20
\* tokenExpiry before the first login (null)
NoExpiry == 0
\* the life of a token, in half hours (60 * 60 * 1000 ms)
TokenLifetime == 2

Sockets == {"s1", "s2"}
Client == "s1"
\* a turn in flight holds a slot
Slots == 1..MaxInFlight
SessionIds == 1..MaxSessions
\* a message is known by its number, which is also its place in time: a
\* later message has a greater timestamp
MessageIds == 1..MaxMessages

Flows == {"QUERY_FLIGHT", "BUY_TICKET", "CHECK_IN"}
StartActions == {"START_QUERY_FLOW", "START_BUY_FLOW", "START_CHECKIN_FLOW"}
\* an action value outside the eight the handler's switch knows (Flows,
\* StartActions, CONTINUE_FLOW, CHAT)
UnknownAction == "CANCEL_TICKET"
\* a flow value outside the three the completion switch knows
UnknownFlow == "REFUND"

\* parameter objects (mappings of parameter names to values): the empty one,
\* and those the classifier returns
EmptyParams == << >>
ParamMaps == {[flightNumber |-> "FL3940"], [flightDate |-> "2024-05-01"]}
\* intent.parameters / intent.collectedParams missing from the classifier's JSON
NoParams == [absent |-> TRUE]

\* x || {}  (index.js: intent.parameters || {}, intent.collectedParams || {})
OrEmpty(p) == IF p = NoParams THEN EmptyParams ELSE p

(***************************************************************************)
(* Intents: what JSON.parse of the classifier's output can give.  A field  *)
(* the variant does not carry is absent.                                   *)
(***************************************************************************)
Intent(a, p, f, n, cp, done, r) ==
    [action |-> a, parameters |-> p, flow |-> f, nextStep |-> n,
     collectedParams |-> cp, isFlowComplete |-> done, response |-> r]

NoIntent == Intent(NULL, NoParams, NULL, NullStep, NoParams, FALSE, NULL)

SingleShotIntents ==
    {Intent(a, p, NULL, NullStep, NoParams, FALSE, NULL) :
        a \in Flows, p \in ParamMaps \cup {NoParams}}
StartIntents ==
    {Intent(a, p, NULL, NullStep, NoParams, FALSE, NULL) :
        a \in StartActions, p \in ParamMaps \cup {NoParams}}
ContinueIntents ==
    {Intent("CONTINUE_FLOW", NoParams, f, n, cp, done, NULL) :
        f \in Flows \cup {NULL, UnknownFlow},
        n \in {NullStep} \cup (1..MaxStep),
        cp \in ParamMaps \cup {NoParams},
        done \in BOOLEAN}
ChatIntents ==
    {Intent(a, NoParams, NULL, NullStep, NoParams, FALSE, r) :
        a \in {"CHAT", UnknownAction}, r \in {NULL, "hello"}}
Intents == SingleShotIntents \cup StartIntents \cup ContinueIntents \cup ChatIntents

\* the intents of SpecAsync: those of two of the flows, with every field present
AsyncIntents ==
    {i \in Intents :
        /\ i.action \in {"QUERY_FLIGHT", "START_QUERY_FLOW", "START_BUY_FLOW",
                          "CONTINUE_FLOW", "CHAT"}
        /\ i.action \in Flows \cup StartActions => i.parameters = [flightNumber |-> "FL3940"]
        /\ i.action = "CONTINUE_FLOW" =>
              /\ i.flow \in {"QUERY_FLIGHT", "BUY_TICKET"}
              /\ i.nextStep = MaxStep
              /\ i.collectedParams = [flightDate |-> "2024-05-01"]
        /\ i.action = "CHAT" => i.response # NULL}

\* detectIntent's own reply when the classifier call failed
SorryUnderstanding == "I'm sorry, I'm having trouble understanding right now. Could you try again or rephrase your request?"

\* aiService.detectIntent: the ways its try block is left by a throw (no
\* client, the request rejected, the completion not parsable)
ClassifierFailures == {"unavailable", "request_error", "unparsable"}

\* the completion whose content is null: JSON.parse(null) is null
NoContent == "no_content"

\* how detectIntent's try block is left when the classifier answered with
\* the outcome and conversationState is state: with a flow active,
\* parsedResponse.action is read, which throws on null
ParseOutcome(outcome, state) ==
    IF outcome = NoContent /\ state.activeFlow # NULL THEN "unparsable" ELSE outcome

\* faulty variant of DetectIntent: without the catch, what was parsed (nothing,
\* after a failure) is returned as it is
DetectIntentUnguarded(outcome, parsed) == parsed

\* what detectIntent returns: the parsed completion, or from its catch a CHAT
\* intent that carries an apology
DetectIntent(outcome, parsed) ==
    IF outcome \in ClassifierFailures
    THEN Intent("CHAT", NoParams, NULL, NullStep, NoParams, FALSE,
                SorryUnderstanding)
    ELSE parsed

(***************************************************************************)
(* Sessions (index.js 60-66) and the flow state the handler keeps in them. *)
(***************************************************************************)
NewSession ==
    [activeFlow |-> NULL, currentStep |-> NullStep, collectedParams |-> EmptyParams]

VARIABLES
    conn,          \* conn[s]: "open" while socket s is connected, then "closed"
    userSessions,  \* userSessions[s]: the session object of socket s, or NoSession
    objs,          \* objs[o]: the session object o (the handlers hold references)
    msgs,          \* msgs[k]: the message turn in slot k, in arrival order
    base,          \* base[o]: session o when no turn was in flight the last time
    history,       \* history[o]: conversationHistory of session object o
    stored,        \* the messages of the user in the Cosmos DB container
    ident,         \* ident[s]: the 'identify' handler of socket s, at its await
    closed,        \* conversationHistory of the user's only session when it
                   \* was deleted, until a session is opened again (for C16)
    noSessionLogged, \* the line the handlers logged last is 'No session found
                   \* for socket'
    authToken,     \* adapters.js: the token of the last successful login
    tokenExpiry,   \* adapters.js: when authToken expires
    now,           \* the clock, in half hours
    call,          \* the adapter call in progress, at its await
    container,     \* the items of the Cosmos DB container, of every user
    millis,        \* Date.now(), in milliseconds
    http,          \* the REST request in progress, and its response
    socketUser     \* socket.userId of the connection: the user it identified as

vars == <<conn, userSessions, objs, msgs, base, history, stored, ident, closed,
          noSessionLogged,
         authToken, tokenExpiry, now, call,
         container, millis, http, socketUser>>

\* the variables of the gateway, and those of the adapters
gatewayVars == <<conn, userSessions, objs, msgs, base, history, stored, ident, closed,
                 noSessionLogged>>
adapterVars == <<authToken, tokenExpiry, now, call>>
\* the variables of the transcripts: the container and the requests on it
transcriptVars == <<container, millis, http, socketUser>>

(***************************************************************************)
(* The flow state machine: what the switch of the message handler does to  *)
(* the session when the intent arrives (index.js 133-474).                 *)
(***************************************************************************)
StartedFlow(a) ==
    CASE a = "START_QUERY_FLOW" -> "QUERY_FLIGHT"
      [] a = "START_BUY_FLOW" -> "BUY_TICKET"
      [] a = "START_CHECKIN_FLOW" -> "CHECK_IN"

\* two parameter mappings taken together, the second one winning
MergeParams(old, new) ==
    [key \in DOMAIN old \cup DOMAIN new |->
        IF key \in DOMAIN new THEN new[key] ELSE old[key]]

\* faulty variant of StartFlow: the parameters are merged into those the
\* session holds instead of replacing them
StartFlowMerging(session, intent) ==
    [session EXCEPT !.activeFlow = StartedFlow(intent.action),
                    !.currentStep = 1,
                    !.collectedParams = MergeParams(@, OrEmpty(intent.parameters))]

\* case 'START_QUERY_FLOW' / 'START_BUY_FLOW' / 'START_CHECKIN_FLOW'
StartFlow(session, intent) ==
    [session EXCEPT !.activeFlow = StartedFlow(intent.action),
                    !.currentStep = 1,
                    !.collectedParams = OrEmpty(intent.parameters)]

\* faulty variant of ContinueFlow: collectedParams is merged, not replaced
ContinueFlowMerging(session, intent) ==
    [session EXCEPT !.activeFlow = intent.flow,
                    !.currentStep = intent.nextStep,
                    !.collectedParams = MergeParams(@, OrEmpty(intent.collectedParams))]

\* faulty variant of ContinueFlow: a CONTINUE_FLOW for another flow than the
\* active one is ignored
ContinueFlowValidating(session, intent) ==
    IF session.activeFlow # NULL /\ intent.flow # session.activeFlow
    THEN session
    ELSE [session EXCEPT !.activeFlow = intent.flow,
                         !.currentStep = intent.nextStep,
                         !.collectedParams = OrEmpty(intent.collectedParams)]

\* case 'CONTINUE_FLOW', the three assignments before the isFlowComplete test
ContinueFlow(session, intent) ==
    [session EXCEPT !.activeFlow = intent.flow,
                    !.currentStep = intent.nextStep,
                    !.collectedParams = OrEmpty(intent.collectedParams)]

\* "Reset flow" at the end of a completion's try block
ResetFlow(session) ==
    [session EXCEPT !.activeFlow = NULL, !.currentStep = NullStep]

\* faulty variant of ApplyIntent: a single-shot action also opens its flow
ApplyIntentOpeningFlow(session, intent) ==
    CASE intent.action \in StartActions -> StartFlow(session, intent)
      [] intent.action = "CONTINUE_FLOW" -> ContinueFlow(session, intent)
      [] intent.action \in Flows ->
            [session EXCEPT !.activeFlow = intent.action, !.currentStep = 1]
      [] OTHER -> session

\* the session after the synchronous part of the switch
ApplyIntent(session, intent) ==
    CASE intent.action \in StartActions -> StartFlow(session, intent)
      [] intent.action = "CONTINUE_FLOW" -> ContinueFlow(session, intent)
      [] OTHER -> session

\* the adapter function a flow kind is dispatched to
AdapterOf(kind) ==
    CASE kind = "QUERY_FLIGHT" -> "searchFlights"
      [] kind = "BUY_TICKET" -> "bookTicket"
      [] kind = "CHECK_IN" -> "checkIn"

IsCompletion(intent) ==
    intent.action = "CONTINUE_FLOW" /\ intent.isFlowComplete

\* faulty variant of DispatchOf: every CONTINUE_FLOW is dispatched, complete
\* or not
DispatchOfAnyContinue(session, intent) ==
    CASE intent.action \in Flows ->
            << [adapter |-> AdapterOf(intent.action), params |-> intent.parameters] >>
      [] intent.action = "CONTINUE_FLOW" /\ intent.flow \in Flows ->
            << [adapter |-> AdapterOf(intent.flow), params |-> session.collectedParams] >>
      [] OTHER -> << >>

\* the adapter calls the switch makes for the intent, the session being the
\* one ApplyIntent left: a single-shot action passes intent.parameters, a
\* completed flow passes session.collectedParams
DispatchOf(session, intent) ==
    CASE intent.action \in Flows ->
            << [adapter |-> AdapterOf(intent.action), params |-> intent.parameters] >>
      [] IsCompletion(intent) /\ intent.flow \in Flows ->
            << [adapter |-> AdapterOf(intent.flow), params |-> session.collectedParams] >>
      [] OTHER -> << >>

(***************************************************************************)
(* The adapters (adapters.js): a backend call ends in one of three ways.   *)
(* searchFlights rethrows every failure; bookTicket and checkIn catch      *)
(* every failure and return an error object.                               *)
(***************************************************************************)
Outcomes == {"success", "domain", "transport"}

\* faulty variant of AdapterThrows: a failure without a response is thrown
\* by every adapter
AdapterThrowsOnTransport(adapter, outcome) ==
    \/ outcome = "transport"
    \/ adapter = "searchFlights" /\ outcome # "success"

AdapterThrows(adapter, outcome) ==
    adapter = "searchFlights" /\ outcome # "success"

(***************************************************************************)
(* Replies.                                                                *)
(***************************************************************************)
\* the text aiService.generateResponse returned (it catches its own errors)
Composed == "COMPOSED"
\* responseContent left '' by a completion whose flow matches no case
EmptyReply == ""
FallbackRephrase == "I'm not sure I understand. Could you please rephrase your request?"
SorryBooking == "I'm sorry, I encountered an error while booking your ticket. Please try again."
SorryCheckIn == "I'm sorry, I encountered an error while processing your check-in. Please try again."

\* faulty variant of ChatReply: the classifier's response is ignored
ChatReplyFallbackOnly(intent) == FallbackRephrase

\* case 'CHAT' / default
ChatReply(intent) ==
    IF intent.response # NULL THEN intent.response ELSE FallbackRephrase

\* the prompt of the composer request made after the adapter call
PromptAfter(intent, threw) ==
    CASE ~threw -> "result"
      [] threw /\ intent.action = "CONTINUE_FLOW" /\ intent.flow # "QUERY_FLIGHT" -> "ambiguous"
      [] OTHER -> "error"

\* whether the turn resets the flow once the composer has answered: only at
\* the end of a completion's try block, which a throwing adapter leaves
ResetsFlow(intent, threw) ==
    IsCompletion(intent) /\ intent.flow \in Flows /\ ~threw

(***************************************************************************)
(* Turns.  pc is the await the turn is suspended at; "done" is the record  *)
(* of a handler that ended while another turn is still in flight.          *)
(***************************************************************************)
FlowState(session) ==
    [activeFlow |-> session.activeFlow, currentStep |-> session.currentStep,
     collectedParams |-> session.collectedParams]

NoTurn ==
    [sock |-> NULL, pc |-> "none", sess |-> NoSession, classifier |-> "none",
     intent |-> NoIntent, calls |-> << >>, outcome |-> "none", prompt |-> NULL,
     reply |-> NULL, emits |-> 0, userMsg |-> NoMessage, replyMsg |-> NoMessage]

\* no 'identify' handler of the socket is running.  (after: the history of
\* the session closed before this identify, when the identify opens the only
\* connection of the user and no handler is running; for C16)
NoIdent == [pc |-> "none", welcome |-> NoMessage, after |-> << >>]

\* faulty variant of Emit: the reply is emitted twice
EmitTwice(t, content) ==
    [t EXCEPT !.pc = "saveReply", !.reply = content, !.emits = @ + 2]

\* socket.emit('message', assistantMessage) with the content, then the save
\* of the assistant message is called
Emit(t, content) ==
    [t EXCEPT !.pc = "saveReply", !.reply = content, !.emits = @ + 1]

\* no adapter call in progress: no reply of the backend yet, no result
NoReply == [kind |-> "pending"]
NoResult == [pending |-> TRUE]
NoCall ==
    [adapter |-> NULL, pc |-> "idle", data |-> NoParams, login |-> "none",
     requests |-> << >>, reply |-> NoReply, result |-> NoResult]

\* the users of the chat
Users == {"u1", "u2"}
\* the limits getConversationHistory is called with
Limits == {1, 2, HistoryLimit}
\* no message object (yet)
NoItem == [none |-> TRUE]
\* the classifier was not called (yet)
NoState == [unset |-> TRUE]
\* no REST request is in progress
NoRequest ==
    [op |-> "none", pc |-> "idle", userId |-> NULL, limit |-> HistoryLimit,
     userMessage |-> NoItem, found |-> << >>, state |-> NoState,
     intent |-> NoIntent, calls |-> << >>, content |-> NULL, status |-> "none",
     message |-> NoItem, body |-> << >>, available |-> FALSE, deleted |-> FALSE]

InFlight(t) == t.pc \notin {"none", "done"}

Init ==
    /\ conn = [s \in Sockets |-> "open"]
    /\ userSessions = [s \in Sockets |-> NoSession]
    /\ objs = [o \in SessionIds |-> NewSession]
    /\ msgs = [k \in Slots |-> NoTurn]
    /\ base = [o \in SessionIds |-> NewSession]
    /\ history = [o \in SessionIds |-> << >>]
    /\ stored = {}
    /\ ident = [s \in Sockets |-> NoIdent]
    /\ closed = << >>
    /\ noSessionLogged = FALSE
    /\ authToken = NULL
    /\ tokenExpiry = NoExpiry
    /\ now = 0
    /\ call = NoCall
    /\ container = {}
    /\ millis = 0
    /\ http = NoRequest
    /\ socketUser = NULL

\* the session objects still referred to: by the registry, or by the handler
\* of a turn whose record is kept
Referenced(registry, turns) ==
    ({registry[s] : s \in Sockets} \cup {turns[k].sess : k \in Slots}) \ {NoSession}

\* an object nothing refers to is garbage: its place holds a fresh object
Collect(heap, registry, turns) ==
    [o \in SessionIds |->
        IF o \in Referenced(registry, turns) THEN heap[o] ELSE NewSession]

\* the conversationHistory arrays of the session objects still referred to
CollectHistory(h, registry, turns) ==
    [o \in SessionIds |->
        IF o \in Referenced(registry, turns) THEN h[o] ELSE << >>]

Range(q) == {q[i] : i \in 1..Len(q)}

\* the messages that exist: in a conversationHistory, held by a handler, in
\* the container
UsedIds(h, turns, idents) ==
    (UNION {Range(h[o]) : o \in SessionIds}
       \cup {turns[k].userMsg : k \in Slots} \cup {turns[k].replyMsg : k \in Slots}
       \cup {idents[s].welcome : s \in Sockets}
       \cup UNION {Range(idents[s].after) : s \in Sockets}
       \cup stored \cup Range(closed)) \ {NoMessage}

\* a new message (Date.now(), new Date().toISOString()): later than every
\* message that exists
NextId(used) ==
    IF used = {} THEN 1 ELSE (CHOOSE m \in used : \A n \in used : n <= m) + 1

\* the messages the handlers in flight have still to create: the welcome
\* message of an identify, the reply of a turn
Pending(turns, idents) ==
    Cardinality({k \in Slots : InFlight(turns[k]) /\ turns[k].replyMsg = NoMessage})
      + Cardinality({s \in Sockets : idents[s].pc = "load"})

\* there is room for n more messages besides the pending ones
Room(h, turns, idents, n) ==
    NextId(UsedIds(h, turns, idents)) - 1 + Pending(turns, idents) + n <= MaxMessages

\* the messages of set S in the order of their timestamps
RECURSIVE Chronological(_)
Chronological(S) ==
    IF S = {} THEN << >>
    ELSE LET last == CHOOSE m \in S : \A n \in S : n <= m
         IN  Append(Chronological(S \ {last}), last)

\* cosmosDbService.getConversationHistory(userId): ORDER BY c.timestamp DESC
\* OFFSET 0 LIMIT @limit, then reverse(); [] when the query fails or the
\* container is not there
GetConversationHistory(ok) ==
    IF ~ok THEN << >>
    ELSE LET all == Chronological(stored)
             n == Len(all)
         IN  IF n <= HistoryLimit THEN all ELSE SubSeq(all, n - HistoryLimit + 1, n)

\* cosmosDbService.saveMessage(message): items.create; on an error, or
\* without a container, nothing is stored and null is returned
SaveMessage(m, ok) == IF ok THEN stored \cup {m} ELSE stored

\* socket s is the only connection of the user, has no session yet, and no
\* handler is running
ReopensAlone(s) ==
    /\ userSessions[s] = NoSession
    /\ \A r \in Sockets \ {s} : conn[r] = "closed" /\ ident[r].pc = "none"
    /\ \A k \in Slots : ~InFlight(msgs[k])

\* faulty variant of Identify: the session is kept by user, so that a second
\* connection of the user takes over, and resets, the session of the first
IdentifyShared(s) ==
    /\ conn[s] = "open"
    /\ ident[s].pc = "none"
    /\ LET others == {userSessions[r] : r \in Sockets \ {s}} \ {NoSession}
           free == IF others # {} THEN others
                   ELSE SessionIds \ Referenced([userSessions EXCEPT ![s] = NoSession], msgs)
       IN  /\ free # {}
           /\ LET o == CHOOSE x \in free : \A y \in free : x <= y
                  registry == [userSessions EXCEPT ![s] = o]
                  h == CollectHistory([history EXCEPT ![o] = << >>], registry, msgs)
              IN  /\ Room(h, msgs, ident, 1)
                  /\ userSessions' = registry
                  /\ objs' = Collect([objs EXCEPT ![o] = NewSession], registry, msgs)
                  /\ base' = Collect([base EXCEPT ![o] = NewSession], registry, msgs)
                  /\ history' = h
    /\ ident' = [ident EXCEPT ![s] =
                    [pc |-> "load", welcome |-> NoMessage,
                     after |-> IF ReopensAlone(s) THEN closed ELSE << >>]]
    /\ closed' = << >>
    /\ noSessionLogged' = FALSE
    /\ UNCHANGED <<conn, msgs, stored>>
    /\ UNCHANGED adapterVars
    /\ UNCHANGED transcriptVars

\* socket.on('identify') up to its await: userSessions[socket.id] = a new
\* session object, in place of the one the socket had; then
\* getConversationHistory is called.  (The client sends no identify while
\* the handler of an earlier one is still running.)
Identify(s) ==
    /\ conn[s] = "open"
    /\ ident[s].pc = "none"
    /\ LET free == SessionIds \ Referenced([userSessions EXCEPT ![s] = NoSession], msgs)
       IN  /\ free # {}
           /\ LET o == CHOOSE x \in free : \A y \in free : x <= y
                  registry == [userSessions EXCEPT ![s] = o]
                  h == CollectHistory([history EXCEPT ![o] = << >>], registry, msgs)
              IN  /\ Room(h, msgs, ident, 1)
                  /\ userSessions' = registry
                  /\ objs' = Collect([objs EXCEPT ![o] = NewSession], registry, msgs)
                  /\ base' = Collect([base EXCEPT ![o] = NewSession], registry, msgs)
                  /\ history' = h
    /\ ident' = [ident EXCEPT ![s] =
                    [pc |-> "load", welcome |-> NoMessage,
                     after |-> IF ReopensAlone(s) THEN closed ELSE << >>]]
    /\ closed' = << >>
    /\ noSessionLogged' = FALSE
    /\ UNCHANGED <<conn, msgs, stored>>
    /\ UNCHANGED adapterVars
    /\ UNCHANGED transcriptVars

\* getConversationHistory returned (index.js 70-92): a history that is not
\* empty becomes the conversationHistory of userSessions[socket.id]; the
\* welcome message is emitted and pushed, and its save is called.  After a
\* disconnect userSessions[socket.id] is undefined: the push at line 89
\* throws outside the try blocks and the handler ends there.
HistoryLoaded(s, ok) ==
    /\ ident[s].pc = "load"
    /\ LET loaded == GetConversationHistory(ok)
           o == userSessions[s]
           welcome == NextId(UsedIds(history, msgs, ident))
       IN  IF o = NoSession
           THEN /\ ident' = [ident EXCEPT ![s] = NoIdent]
                /\ UNCHANGED history
           ELSE /\ ident' = [ident EXCEPT ![s] = [pc |-> "saveWelcome", welcome |-> welcome,
                                                    after |-> << >>]]
                /\ history' = [history EXCEPT ![o] =
                                  Append(IF Len(loaded) > 0 THEN loaded ELSE @, welcome)]
    /\ UNCHANGED <<conn, userSessions, objs, msgs, base, stored, closed, noSessionLogged>>
    /\ UNCHANGED adapterVars
    /\ UNCHANGED transcriptVars

\* saveMessage(welcomeMessage) returned: the handler ends
WelcomeSaved(s, ok) ==
    /\ ident[s].pc = "saveWelcome"
    /\ stored' = SaveMessage(ident[s].welcome, ok)
    /\ ident' = [ident EXCEPT ![s] = NoIdent]
    /\ UNCHANGED <<conn, userSessions, objs, msgs, base, history, closed, noSessionLogged>>
    /\ UNCHANGED adapterVars
    /\ UNCHANGED transcriptVars

\* closed after the disconnect of socket s
ClosedAfter(s) ==
    IF userSessions[s] = NoSession THEN closed
    ELSE IF \A r \in Sockets \ {s} : userSessions[r] = NoSession
         THEN history[userSessions[s]]
         ELSE << >>

\* faulty variant of Disconnect: the stored conversation is deleted as well
DisconnectDeleting(s) ==
    /\ conn[s] = "open"
    /\ conn' = [conn EXCEPT ![s] = "closed"]
    /\ LET registry == [userSessions EXCEPT ![s] = NoSession]
       IN  /\ userSessions' = registry
           /\ objs' = Collect(objs, registry, msgs)
           /\ base' = Collect(base, registry, msgs)
           /\ history' = CollectHistory(history, registry, msgs)
    /\ closed' = ClosedAfter(s)
    /\ stored' = {}
    /\ noSessionLogged' = FALSE
    /\ UNCHANGED <<msgs, ident>>
    /\ UNCHANGED adapterVars
    /\ UNCHANGED transcriptVars

\* faulty variant of Disconnect: the turns of the connection are cancelled
DisconnectCancelling(s) ==
    /\ conn[s] = "open"
    /\ conn' = [conn EXCEPT ![s] = "closed"]
    /\ LET turns == [k \in Slots |-> IF msgs[k].sock = s THEN NoTurn ELSE msgs[k]]
           registry == [userSessions EXCEPT ![s] = NoSession]
       IN  /\ msgs' = turns
           /\ userSessions' = registry
           /\ objs' = Collect(objs, registry, turns)
           /\ base' = Collect(base, registry, turns)
           /\ history' = CollectHistory(history, registry, turns)
    /\ closed' = ClosedAfter(s)
    /\ noSessionLogged' = FALSE
    /\ UNCHANGED <<stored, ident>>
    /\ UNCHANGED adapterVars
    /\ UNCHANGED transcriptVars

\* socket.on('disconnect'): delete userSessions[socket.id]
Disconnect(s) ==
    /\ conn[s] = "open"
    /\ conn' = [conn EXCEPT ![s] = "closed"]
    /\ LET registry == [userSessions EXCEPT ![s] = NoSession]
       IN  /\ userSessions' = registry
           /\ objs' = Collect(objs, registry, msgs)
           /\ base' = Collect(base, registry, msgs)
           /\ history' = CollectHistory(history, registry, msgs)
    /\ closed' = ClosedAfter(s)
    /\ noSessionLogged' = FALSE
    /\ UNCHANGED <<msgs, stored, ident>>
    /\ UNCHANGED adapterVars
    /\ UNCHANGED transcriptVars

\* faulty variant of Message: the handler does not look the session up
MessageWithoutLookup(s, k) ==
    /\ conn[s] = "open"
    /\ msgs[k].pc = "none"
    /\ \A j \in Slots : j < k => msgs[j].pc # "none"
    /\ Room(history, msgs, ident, 2)
    /\ msgs' = [msgs EXCEPT ![k] =
                  [NoTurn EXCEPT !.sock = s, !.pc = "saveUser",
                                 !.sess = userSessions[s],
                                 !.userMsg = NextId(UsedIds(history, msgs, ident))]]
    /\ noSessionLogged' = FALSE
    /\ UNCHANGED <<conn, userSessions, objs, base, history, stored, ident, closed>>
    /\ UNCHANGED adapterVars
    /\ UNCHANGED transcriptVars

\* socket.on('message'), up to the first await: the session lookup (without
\* a session the handler logs that and returns), then
\* cosmosDbService.saveMessage(message) is called
Message(s, k) ==
    /\ conn[s] = "open"
    /\ msgs[k].pc = "none"
    /\ \A j \in Slots : j < k => msgs[j].pc # "none"
    /\ IF userSessions[s] = NoSession
       THEN /\ noSessionLogged' = TRUE
            /\ UNCHANGED msgs
       ELSE /\ Room(history, msgs, ident, 2)
            /\ msgs' = [msgs EXCEPT ![k] =
                          [NoTurn EXCEPT !.sock = s, !.pc = "saveUser",
                                         !.sess = userSessions[s],
                                         !.userMsg = NextId(UsedIds(history, msgs, ident))]]
            /\ noSessionLogged' = FALSE
    /\ UNCHANGED <<conn, userSessions, objs, base, history, stored, ident, closed>>
    /\ UNCHANGED adapterVars
    /\ UNCHANGED transcriptVars

\* the conversation state detectIntent is called with by the turn in slot k
ClassifierContext(k) == FlowState(objs[msgs[k].sess])

\* saveMessage(message) returned, the message stored or not: it is pushed to
\* the session's conversationHistory, and aiService.detectIntent is called,
\* with ClassifierContext(k) as it is now
UserSaved(k, ok) ==
    /\ msgs[k].pc = "saveUser"
    /\ stored' = SaveMessage(msgs[k].userMsg, ok)
    /\ history' = [history EXCEPT ![msgs[k].sess] = Append(@, msgs[k].userMsg)]
    /\ msgs' = [msgs EXCEPT ![k].pc = "classify"]
    /\ UNCHANGED <<conn, userSessions, objs, base, ident, closed, noSessionLogged>>
    /\ UNCHANGED adapterVars
    /\ UNCHANGED transcriptVars

\* the assistantMessage of a turn that has just emitted (index.js 477-484)
Stamp(t, u) ==
    IF u.emits > t.emits
    THEN [u EXCEPT !.replyMsg = NextId(UsedIds(history, msgs, ident))]
    ELSE u

\* session.conversationHistory.push(assistantMessage) (index.js 488)
PushReply(t, u) ==
    IF u.emits > t.emits
    THEN [history EXCEPT ![t.sess] = Append(@, u.replyMsg)]
    ELSE history

\* the handler's outer catch (index.js 496-509)
SorryProcessing == "I'm sorry, I encountered an error processing your request. Please try again."

\* the turn after the outer catch: errorMessage is emitted, and is neither
\* pushed nor saved
Caught(t) ==
    [t EXCEPT !.pc = "caught", !.reply = SorryProcessing, !.emits = @ + 1]

\* the turn after the switch has handled the intent up to its next await;
\* at "saveReply" the reply has been emitted
AfterIntent(t, session, intent) ==
    LET calls == DispatchOf(session, intent)
        u == [t EXCEPT !.intent = intent, !.calls = calls]
    IN  CASE calls # << >> -> [u EXCEPT !.pc = "adapter"]
          [] calls = << >> /\ intent.action \in StartActions ->
                [u EXCEPT !.pc = "compose", !.prompt = "start"]
          [] calls = << >> /\ intent.action = "CONTINUE_FLOW" /\ ~intent.isFlowComplete ->
                [u EXCEPT !.pc = "compose", !.prompt = "continue"]
          [] calls = << >> /\ IsCompletion(intent) -> Emit(u, EmptyReply)
          [] OTHER -> Emit(u, ChatReply(intent))

\* detectIntent returned: the completion parsed, or its own fallback when the
\* classifier call failed; then the switch.  When detectIntent returned null,
\* reading intent.action throws into the outer catch.
Classified(k, outcome, parsed) ==
    /\ msgs[k].pc = "classify"
    /\ LET o == msgs[k].sess
           left == ParseOutcome(outcome, ClassifierContext(k))
           intent == DetectIntent(left, parsed)
           session == ApplyIntent(objs[o], intent)
           t == [msgs[k] EXCEPT !.classifier = left]
           u == Stamp(t, AfterIntent(t, session, intent))
       IN  IF left = NoContent
           THEN /\ msgs' = [msgs EXCEPT ![k] = Caught(t)]
                /\ UNCHANGED <<objs, history>>
           ELSE /\ objs' = [objs EXCEPT ![o] = session]
                /\ msgs' = [msgs EXCEPT ![k] = u]
                /\ history' = PushReply(t, u)
    /\ noSessionLogged' = FALSE
    /\ UNCHANGED <<conn, userSessions, base, stored, ident, closed>>
    /\ UNCHANGED adapterVars
    /\ UNCHANGED transcriptVars

\* faulty variant of AfterAdapter: a failed call is made a second time
AfterAdapterRetrying(t, outcome) ==
    IF outcome # "success" /\ Len(t.calls) = 1
    THEN [t EXCEPT !.calls = Append(@, @[1])]
    ELSE [t EXCEPT !.outcome = outcome, !.pc = "compose",
                   !.prompt = PromptAfter(t.intent, FALSE)]

\* the turn after the adapter call ended with the outcome
AfterAdapter(t, outcome) ==
    LET threw == AdapterThrows(t.calls[Len(t.calls)].adapter, outcome)
        u == [t EXCEPT !.outcome = outcome]
    IN  CASE threw /\ t.intent.action = "BUY_TICKET" -> Emit(u, SorryBooking)
          [] threw /\ t.intent.action = "CHECK_IN" -> Emit(u, SorryCheckIn)
          [] OTHER ->
                [u EXCEPT !.pc = "compose", !.prompt = PromptAfter(t.intent, threw)]

\* the adapter call returned or threw: generateResponse is called
AdapterReturned(k, outcome) ==
    /\ msgs[k].pc = "adapter"
    /\ LET u == Stamp(msgs[k], AfterAdapter(msgs[k], outcome))
       IN  /\ msgs' = [msgs EXCEPT ![k] = u]
           /\ history' = PushReply(msgs[k], u)
    /\ noSessionLogged' = FALSE
    /\ UNCHANGED <<conn, userSessions, objs, base, stored, ident, closed>>
    /\ UNCHANGED adapterVars
    /\ UNCHANGED transcriptVars

\* whether the adapter call of the turn threw
Threw(t) ==
    /\ t.calls # << >>
    /\ AdapterThrows(t.calls[Len(t.calls)].adapter, t.outcome)

\* generateResponse returned: the flow reset of a completion, then the reply
\* is emitted and its save is called
ComposerReturned(k) ==
    /\ msgs[k].pc = "compose"
    /\ LET t == msgs[k]
           u == Stamp(t, Emit(t, Composed))
       IN  /\ objs' = [objs EXCEPT ![t.sess] =
                         IF ResetsFlow(t.intent, Threw(t)) THEN ResetFlow(@) ELSE @]
           /\ msgs' = [msgs EXCEPT ![k] = u]
           /\ history' = PushReply(t, u)
    /\ UNCHANGED <<conn, userSessions, base, stored, ident, closed, noSessionLogged>>
    /\ UNCHANGED adapterVars
    /\ UNCHANGED transcriptVars

\* saveMessage(assistantMessage) returned, the message stored or not: the
\* handler ends.  When no other turn is in flight the records of the ended
\* handlers are dropped.
ReplySaved(k, ok) ==
    /\ msgs[k].pc = "saveReply"
    /\ stored' = SaveMessage(msgs[k].replyMsg, ok)
    /\ IF \A j \in Slots \ {k} : ~InFlight(msgs[j])
       THEN LET none == [j \in Slots |-> NoTurn]
                heap == Collect(objs, userSessions, none)
            IN  /\ msgs' = none
                /\ objs' = heap
                /\ base' = heap
                /\ history' = CollectHistory(history, userSessions, none)
       ELSE /\ msgs' = [msgs EXCEPT ![k].pc = "done"]
            /\ UNCHANGED <<objs, base, history>>
    /\ UNCHANGED <<conn, userSessions, ident, closed, noSessionLogged>>
    /\ UNCHANGED adapterVars
    /\ UNCHANGED transcriptVars

\* the handler ends after its outer catch.  When no other turn is in flight
\* the records of the ended handlers are dropped.
CatchReturned(k) ==
    /\ msgs[k].pc = "caught"
    /\ IF \A j \in Slots \ {k} : ~InFlight(msgs[j])
       THEN LET none == [j \in Slots |-> NoTurn]
                heap == Collect(objs, userSessions, none)
            IN  /\ msgs' = none
                /\ objs' = heap
                /\ base' = heap
                /\ history' = CollectHistory(history, userSessions, none)
       ELSE /\ msgs' = [msgs EXCEPT ![k].pc = "done"]
            /\ UNCHANGED <<objs, base, history>>
    /\ UNCHANGED <<conn, userSessions, stored, ident, closed, noSessionLogged>>
    /\ UNCHANGED adapterVars
    /\ UNCHANGED transcriptVars

\* the steps of the turns in flight, the classifier answering with an intent
\* of the set and the store saving as the set says
TurnStep(intents, saves) ==
    \/ \E k \in Slots, ok \in saves : UserSaved(k, ok)
    \/ \E k \in Slots, intent \in intents : Classified(k, "ok", intent)
    \/ \E k \in Slots, failure \in ClassifierFailures : Classified(k, failure, NoIntent)
    \/ \E k \in Slots, outcome \in Outcomes : AdapterReturned(k, outcome)
    \/ \E k \in Slots : ComposerReturned(k)
    \/ \E k \in Slots, ok \in saves : ReplySaved(k, ok)

\* the classifier answers a turn in flight with a completion without
\* content, and the handler of such a turn ends
NullCompletionStep ==
    \/ \E k \in Slots : Classified(k, NoContent, NoIntent)
    \/ \E k \in Slots : CatchReturned(k)

\* the steps of the identify handlers in flight
IdentifyStep(sockets, loads, saves) ==
    \/ \E s \in sockets, ok \in loads : HistoryLoaded(s, ok)
    \/ \E s \in sockets, ok \in saves : WelcomeSaved(s, ok)

\* the store without a container, or out of reach: nothing is saved or loaded
StoreDown == {FALSE}

\* Spec: one connection, every intent, the store down; the client sends a
\* message when its identify has been answered and no turn is in flight
\* (messages are processed one after another)
Next ==
    \/ Identify(Client)
    \/ IdentifyStep({Client}, StoreDown, StoreDown)
    \/ Disconnect(Client)
    \/ (ident[Client].pc = "none" /\ Message(Client, 1))
    \/ TurnStep(Intents, StoreDown)
    \/ NullCompletionStep

Spec == Init /\ [][Next]_vars

\* SpecAsync: a client whose identify has been answered sends a message
\* whenever it likes, up to MaxInFlight turns in flight; the store down
NextAsync ==
    \/ \E s \in Sockets : Identify(s)
    \/ IdentifyStep(Sockets, StoreDown, StoreDown)
    \/ \E s \in Sockets : Disconnect(s)
    \/ \E s \in Sockets, k \in Slots : (ident[s].pc = "none" /\ Message(s, k))
    \/ TurnStep(AsyncIntents, StoreDown)

SpecAsync == Init /\ [][NextAsync]_vars

\* the store answering every call
StoreUp == {TRUE}
\* the store answering or failing, call by call
StoreUpOrDown == BOOLEAN

\* the intents of SpecStore and SpecLive: a chat reply and a booking
StoreIntents ==
    {Intent("CHAT", NoParams, NULL, NullStep, NoParams, FALSE, "hello"),
     Intent("BUY_TICKET", [flightNumber |-> "FL3940"], NULL, NullStep, NoParams,
            FALSE, NULL)}

\* SpecStore: the connections of one user, one after the other or together,
\* with the store up; a client sends a message when no turn is in flight,
\* also while its identify is still loading the history
NextStore ==
    \/ \E s \in Sockets : Identify(s)
    \/ IdentifyStep(Sockets, StoreUp, StoreUp)
    \/ \E s \in Sockets : Disconnect(s)
    \/ \E s \in Sockets : Message(s, 1)
    \/ TurnStep(StoreIntents, StoreUp)

SpecStore == Init /\ [][NextStore]_vars

\* the slots of SpecLive, whose turns come one after the other
LiveSlots == {1}

\* SpecLive: one connection, the store answering or failing call by call,
\* and every external call of a turn returns
NextLive ==
    \/ Identify(Client)
    \/ IdentifyStep({Client}, StoreUpOrDown, StoreUpOrDown)
    \/ Disconnect(Client)
    \/ \E k \in LiveSlots : Message(Client, k)
    \/ TurnStep(StoreIntents, StoreUpOrDown)

SpecLive == Init /\ [][NextLive]_vars /\ WF_vars(TurnStep(StoreIntents, StoreUpOrDown))

\* the intents of SpecPair: a flow is started, continued and completed
PairIntents ==
    {i \in AsyncIntents : i.action \in {"START_BUY_FLOW", "CONTINUE_FLOW"}
                          /\ i.flow \in {NULL, "BUY_TICKET"}}

\* SpecPair: two connections, each sending a message when its identify has
\* been answered and its own turn has ended, also while a turn of the other
\* connection is in flight; the store down
NextPair ==
    \/ \E s \in Sockets : Identify(s)
    \/ IdentifyStep(Sockets, StoreDown, StoreDown)
    \/ \E s \in Sockets : Disconnect(s)
    \/ \E s \in Sockets, k \in Slots :
          /\ ident[s].pc = "none"
          /\ \A j \in Slots : InFlight(msgs[j]) => msgs[j].sock # s
          /\ Message(s, k)
    \/ TurnStep(PairIntents, StoreDown)

SpecPair == Init /\ [][NextPair]_vars

(***************************************************************************)
(* The adapters from the inside (adapters.js): the token kept by the       *)
(* module, the login of ensureAuthenticated, the request to the backend    *)
(* and what the adapter makes of the way the request ended.  One call at a *)
(* time; the clock counts half hours.                                      *)
(***************************************************************************)
Adapters == {"searchFlights", "bookTicket", "checkIn"}

\* the ways the login request of ensureAuthenticated ends: a response with a
\* token, a response without one, a rejection, no response
LoginOutcomes == {"token", "no_token", "rejected", "unreachable"}

\* the ways a request to the backend ends, as axios reports them: a 2xx
\* response resolves; any other response, and no response at all, rejects
Replies ==
    {[kind |-> "response", status |-> 200, data |-> [ticketId |-> "T1"]]}
      \cup {[kind |-> "rejection", status |-> st, data |-> d] :
                st \in {400, 404},
                d \in {[errors |-> "Flight is full"], [title |-> "Not Found"]}}
      \cup {[kind |-> "no_response", code |-> c] : c \in {"ETIMEDOUT", "ECONNREFUSED"}}

\* the error axios rejects with: with a response its message names the
\* status, and error.response is set; without one only the message is
AxiosError(reply) ==
    IF reply.kind = "rejection"
    THEN [message |-> [text |-> "Request failed with status code", status |-> reply.status],
          response |-> [status |-> reply.status, data |-> reply.data]]
    ELSE [message |-> [text |-> reply.code]]

\* reading a property of undefined
TypeError == [message |-> [text |-> "Cannot read properties of undefined"]]

FailedToBook == "Failed to book ticket. Please try again with valid flight details."
FailedToCheckIn == "Failed to check in. Please verify your flight details and try again."

\* the catch block of the adapter: searchFlights throws a new Error made of
\* the message; bookTicket and checkIn return an error object, with the status
\* of the response when there is one
Catch(adapter, error) ==
    IF adapter = "searchFlights"
    THEN [thrown |-> [prefix |-> "Failed to search flights: ", message |-> error.message]]
    ELSE IF "response" \in DOMAIN error
         THEN [error |-> TRUE,
               statusCode |-> error.response.status,
               errorData |-> error.response.data,
               message |-> IF "errors" \in DOMAIN error.response.data
                           THEN error.response.data.errors
                           ELSE IF adapter = "bookTicket" THEN FailedToBook
                                ELSE FailedToCheckIn]
         ELSE [error |-> TRUE, message |-> error.message, status |-> "failed"]

\* what the adapter returns after a 2xx response
Success(adapter, reply) ==
    IF adapter = "searchFlights"
    THEN [value |-> reply.data]
    ELSE [data |-> reply.data, status |-> "success", statusCode |-> reply.status]

\* the result of the adapter when its request ended with the reply
ResultOf(adapter, reply) ==
    IF reply.kind = "response" THEN Success(adapter, reply)
    ELSE Catch(adapter, AxiosError(reply))

\* ensureAuthenticated: the token is there and has not expired
TokenValid == authToken # NULL /\ tokenExpiry # NoExpiry /\ now < tokenExpiry

\* the adapter builds its request and sends it with the Authorization header
\* apiClient has; bookTicket and searchFlights read the fields of their
\* argument, which throws into the catch block when there is none
SendRequest(c, token) ==
    IF c.adapter # "checkIn" /\ c.data = NoParams
    THEN [c EXCEPT !.pc = "returned", !.result = Catch(c.adapter, TypeError)]
    ELSE [c EXCEPT !.pc = "request",
                   !.requests = Append(@, [to |-> c.adapter, authorization |-> token])]

\* an adapter is called: searchFlights sends its request; bookTicket and
\* checkIn first await ensureAuthenticated, which sends a login request
\* unless the token is valid
Call(adapter, data) ==
    /\ call.pc = "idle"
    /\ LET c == [NoCall EXCEPT !.adapter = adapter, !.data = data]
       IN  call' = CASE adapter = "searchFlights" -> SendRequest(c, authToken)
                     [] TokenValid -> SendRequest([c EXCEPT !.login = "valid"], authToken)
                     [] OTHER -> [c EXCEPT !.pc = "login"]
    /\ UNCHANGED <<authToken, tokenExpiry, now>>
    /\ UNCHANGED gatewayVars
    /\ UNCHANGED transcriptVars

\* the login request ended: with a token in the response the token and its
\* expiry are stored and ensureAuthenticated returns true, otherwise it
\* returns false; the adapter ignores what it returns and goes on
LoginReturned(outcome) ==
    /\ call.pc = "login"
    /\ LET token == IF outcome = "token" THEN "token" ELSE authToken
       IN  /\ authToken' = token
           /\ tokenExpiry' = IF outcome = "token" THEN now + TokenLifetime ELSE tokenExpiry
           /\ call' = SendRequest([call EXCEPT !.login = outcome], token)
    /\ UNCHANGED now
    /\ UNCHANGED gatewayVars
    /\ UNCHANGED transcriptVars

\* the request to the backend ended
BackendReturned(reply) ==
    /\ call.pc = "request"
    /\ call' = [call EXCEPT !.pc = "returned", !.reply = reply,
                            !.result = ResultOf(call.adapter, reply)]
    /\ UNCHANGED <<authToken, tokenExpiry, now>>
    /\ UNCHANGED gatewayVars
    /\ UNCHANGED transcriptVars

\* the caller has the result
Resume ==
    /\ call.pc = "returned"
    /\ call' = NoCall
    /\ UNCHANGED <<authToken, tokenExpiry, now>>
    /\ UNCHANGED gatewayVars
    /\ UNCHANGED transcriptVars

\* half an hour passes
Tick ==
    /\ now < MaxClock
    /\ now' = now + 1
    /\ UNCHANGED <<authToken, tokenExpiry, call>>
    /\ UNCHANGED gatewayVars
    /\ UNCHANGED transcriptVars

\* the arguments the adapters are called with: collected parameters, or none
AdapterInputs == {[flightNumber |-> "FL3940"], NoParams}

\* SpecAdapters: adapter calls one after the other, every request ending in
\* one of the ways axios knows, while time passes
NextAdapters ==
    \/ \E adapter \in Adapters, data \in AdapterInputs : Call(adapter, data)
    \/ \E outcome \in LoginOutcomes : LoginReturned(outcome)
    \/ \E reply \in Replies : BackendReturned(reply)
    \/ Resume
    \/ Tick

SpecAdapters == Init /\ [][NextAdapters]_vars

(***************************************************************************)
(* What a turn does to its session when its steps are taken with no other  *)
(* turn in between: the switch, then the reset of a completion.            *)
(***************************************************************************)
TurnEffect(session, intent, threw) ==
    LET applied == ApplyIntent(session, intent)
    IN  IF ResetsFlow(intent, threw) THEN ResetFlow(applied) ELSE applied

\* session o after the turns of slots 1..n, applied to base[o] one after the
\* other in arrival order
RECURSIVE SeqState(_, _)
SeqState(o, n) ==
    IF n = 0 THEN base[o]
    ELSE LET before == SeqState(o, n - 1)
             t == msgs[n]
         IN  IF t.pc # "none" /\ t.sess = o
             THEN TurnEffect(before, t.intent, Threw(t))
             ELSE before

\* the handler of the turn in slot k ends in this step
Finishes(k) == msgs[k].pc = "saveReply" /\ msgs'[k].pc # "saveReply"

\* the turn in slot k takes a step, and the intent it is handling in it
Steps(k) == InFlight(msgs[k]) /\ msgs'[k] # msgs[k]
Handled(k) == IF msgs[k].pc = "classify" THEN msgs'[k].intent ELSE msgs[k].intent

\* the turn in slot k has made all its session mutations and emitted its reply
Replied(t) == t.pc \in {"saveReply", "done"}

(***************************************************************************)
(* The claims.                                                             *)
(***************************************************************************)

\* C1: in every reachable state every session has activeFlow = NONE (null)
\* if and only if its currentStep is null.
ActiveFlowIffCurrentStep ==
    \A o \in SessionIds :
        (objs[o].activeFlow = NULL) <=> (objs[o].currentStep = NullStep)

\* C2, as amended: a turn whose intent is START_*, CHAT or an incomplete
\* CONTINUE_FLOW makes no adapter call, and the turn of a CONTINUE_FLOW with
\* isFlowComplete makes exactly one call, of the adapter of intent.flow with
\* intent.collectedParams (the empty mapping when absent), when intent.flow is
\* one of the three flow kinds, and no call when it is not.  The calls of a
\* sequence of intents processed one after another are those of its turns, so
\* a sequence of the former ended by the latter makes that one call in total.
DispatchedOnceForKnownFlow ==
    \A k \in Slots :
        LET t == msgs[k]
            i == t.intent
        IN  Replied(t) =>
              /\ (\/ i.action \in StartActions \cup {"CHAT"}
                  \/ i.action = "CONTINUE_FLOW" /\ ~i.isFlowComplete)
                    => t.calls = << >>
              /\ (i.action = "CONTINUE_FLOW" /\ i.isFlowComplete /\ i.flow \in Flows)
                    => t.calls = << [adapter |->
                                       CASE i.flow = "QUERY_FLIGHT" -> "searchFlights"
                                         [] i.flow = "BUY_TICKET" -> "bookTicket"
                                         [] i.flow = "CHECK_IN" -> "checkIn",
                                     params |-> IF i.collectedParams = NoParams
                                                THEN EmptyParams
                                                ELSE i.collectedParams] >>
              /\ (i.action = "CONTINUE_FLOW" /\ i.isFlowComplete /\ i.flow \notin Flows)
                    => t.calls = << >>

\* C2, as claimed: the turn of every CONTINUE_FLOW with isFlowComplete makes
\* exactly one adapter call, with intent.collectedParams.
DispatchedExactlyOnce ==
    \A k \in Slots :
        LET t == msgs[k]
            i == t.intent
        IN  (Replied(t) /\ i.action = "CONTINUE_FLOW" /\ i.isFlowComplete)
              => /\ Len(t.calls) = 1
                 /\ t.calls[1].params = IF i.collectedParams = NoParams
                                        THEN EmptyParams
                                        ELSE i.collectedParams

\* C2 witness: a flow was started by an earlier turn and the turn of its
\* completion has made its one call.
DispatchedOnceWitness ==
    \E k \in Slots :
        /\ msgs[k].pc = "saveReply"
        /\ IsCompletion(msgs[k].intent)
        /\ msgs[k].intent.flow = "BUY_TICKET"
        /\ base[msgs[k].sess].activeFlow = "BUY_TICKET"
        /\ Len(msgs[k].calls) = 1

\* C3: when the turn of a CONTINUE_FLOW with isFlowComplete, of one of the
\* three flow kinds, has finished, its session has activeFlow = NONE and
\* currentStep = null, whatever the outcome of the adapter call.
FlowResetAfterCompletion ==
    [][\A k \in Slots :
         (/\ Finishes(k)
          /\ IsCompletion(msgs[k].intent)
          /\ msgs[k].intent.flow \in Flows)
            => /\ objs'[msgs[k].sess].activeFlow = NULL
               /\ objs'[msgs[k].sess].currentStep = NullStep]_vars

\* C4: of two messages of one session, the classifier is not called for the
\* later one before the turn of the earlier one has made all its session
\* mutations, and the later one is not replied to before the earlier one.
TurnsSerialized ==
    \A j, k \in Slots :
        (/\ j < k
         /\ msgs[j].pc # "none"
         /\ msgs[k].pc # "none"
         /\ msgs[j].sess = msgs[k].sess)
          => /\ msgs[k].pc # "saveUser" => Replied(msgs[j])
             /\ Replied(msgs[k]) => Replied(msgs[j])

\* C5: when the turns in flight at the same time have all finished, every
\* session that still exists is what applying the turns one after the other in arrival order
\* makes of it.
AppliedInArrivalOrder ==
    [][\A k \in Slots :
         (Finishes(k) /\ \A j \in Slots \ {k} : ~InFlight(msgs[j]))
            => \A o \in Referenced(userSessions', msgs') :
                  objs'[o] = SeqState(o, MaxInFlight)]_vars

\* C6: when the turn of a CONTINUE_FLOW with isFlowComplete, of one of the
\* three flow kinds, has finished, the collectedParams of its session is
\* empty.
ParamsClearedAfterCompletion ==
    [][\A k \in Slots :
         (/\ Finishes(k)
          /\ IsCompletion(msgs[k].intent)
          /\ msgs[k].intent.flow \in Flows)
            => objs'[msgs[k].sess].collectedParams = EmptyParams]_vars

\* C7: the turn of a single-shot intent (QUERY_FLIGHT, BUY_TICKET, CHECK_IN)
\* makes exactly one call, of the adapter of the action with
\* intent.parameters, and none of its steps changes activeFlow, currentStep
\* or collectedParams of a session that still exists, whether a flow is active or not and
\* whatever the outcome of the call.
SingleShotDispatch ==
    /\ [](\A k \in Slots :
            LET t == msgs[k]
                i == t.intent
            IN  i.action \in Flows =>
                  t.calls = << [adapter |->
                                  CASE i.action = "QUERY_FLIGHT" -> "searchFlights"
                                    [] i.action = "BUY_TICKET" -> "bookTicket"
                                    [] i.action = "CHECK_IN" -> "checkIn",
                                params |-> i.parameters] >>)
    /\ [][\A k \in Slots :
            (Steps(k) /\ Handled(k).action \in Flows)
               => \A o \in Referenced(userSessions', msgs') : objs'[o] = objs[o]]_vars

\* C7 witness: a single-shot turn, taken while a flow is active, has made its
\* call, which failed, and only the save of its reply remains.
SingleShotWitness ==
    \E k \in Slots :
        /\ msgs[k].pc = "saveReply"
        /\ msgs[k].intent.action = "BUY_TICKET"
        /\ msgs[k].outcome = "transport"
        /\ Len(msgs[k].calls) = 1
        /\ objs[msgs[k].sess].activeFlow = "QUERY_FLIGHT"

\* C8: the turn of an intent whose action is CHAT, or none of the eight
\* recognized actions, makes no adapter call, none of its steps changes
\* activeFlow, currentStep or collectedParams of a session that still exists,
\* and its reply is
\* intent.response when present and the rephrase request otherwise.
ChatIsQuiet ==
    /\ [](\A k \in Slots :
            LET t == msgs[k]
                i == t.intent
            IN  i.action \in {"CHAT", UnknownAction} =>
                  /\ t.calls = << >>
                  /\ t.pc \in {"saveReply", "done"}
                  /\ t.reply = IF i.response = NULL
                               THEN "I'm not sure I understand. Could you please rephrase your request?"
                               ELSE i.response)
    /\ [][\A k \in Slots :
            (Steps(k) /\ Handled(k).action \in {"CHAT", UnknownAction})
               => \A o \in Referenced(userSessions', msgs') : objs'[o] = objs[o]]_vars

\* C8 witness: a turn of an unrecognized action that carries a response,
\* taken while a flow is active, is about to save its reply.
ChatWitness ==
    \E k \in Slots :
        /\ msgs[k].pc = "saveReply"
        /\ msgs[k].intent.action = UnknownAction
        /\ msgs[k].reply = "hello"
        /\ objs[msgs[k].sess].activeFlow = "CHECK_IN"

\* C9: the step that handles a START_* intent sets activeFlow to the flow of
\* the action, currentStep to 1 and collectedParams to intent.parameters (the
\* empty mapping when absent); the turn makes no adapter call.
StartSetsFlow ==
    /\ [](\A k \in Slots :
            msgs[k].intent.action \in StartActions => msgs[k].calls = << >>)
    /\ [][\A k \in Slots :
            (msgs[k].pc = "classify" /\ msgs'[k].intent.action \in StartActions)
               => LET i == msgs'[k].intent
                  IN  objs'[msgs[k].sess] =
                        [activeFlow |->
                            CASE i.action = "START_QUERY_FLOW" -> "QUERY_FLIGHT"
                              [] i.action = "START_BUY_FLOW" -> "BUY_TICKET"
                              [] i.action = "START_CHECKIN_FLOW" -> "CHECK_IN",
                         currentStep |-> 1,
                         collectedParams |-> IF i.parameters = NoParams
                                             THEN EmptyParams
                                             ELSE i.parameters]]_vars

\* C9 witness: a START_* turn taken while another flow was active, with
\* parameters collected, has set the session and waits for the composer.
StartWitness ==
    \E k \in Slots :
        /\ msgs[k].pc = "compose"
        /\ msgs[k].intent.action = "START_CHECKIN_FLOW"
        /\ msgs[k].intent.parameters = [flightDate |-> "2024-05-01"]
        /\ base[msgs[k].sess].activeFlow = "BUY_TICKET"
        /\ base[msgs[k].sess].collectedParams = [flightNumber |-> "FL3940"]
        /\ objs[msgs[k].sess].activeFlow = "CHECK_IN"

\* C10: the step that handles a CONTINUE_FLOW intent with isFlowComplete
\* false sets activeFlow to intent.flow and currentStep to intent.nextStep and
\* replaces collectedParams by intent.collectedParams (the empty mapping when
\* absent); the turn makes no adapter call.
ContinueSetsFlow ==
    /\ [](\A k \in Slots :
            (msgs[k].intent.action = "CONTINUE_FLOW" /\ ~msgs[k].intent.isFlowComplete)
               => msgs[k].calls = << >>)
    /\ [][\A k \in Slots :
            (/\ msgs[k].pc = "classify"
             /\ msgs'[k].intent.action = "CONTINUE_FLOW"
             /\ ~msgs'[k].intent.isFlowComplete)
               => LET i == msgs'[k].intent
                  IN  objs'[msgs[k].sess] =
                        [activeFlow |-> i.flow,
                         currentStep |-> i.nextStep,
                         collectedParams |-> IF i.collectedParams = NoParams
                                             THEN EmptyParams
                                             ELSE i.collectedParams]]_vars

\* C10 witness: an incomplete CONTINUE_FLOW whose collectedParams lacks a key
\* the session held has replaced the mapping and waits for the composer.
ContinueWitness ==
    \E k \in Slots :
        /\ msgs[k].pc = "compose"
        /\ msgs[k].intent.action = "CONTINUE_FLOW"
        /\ ~msgs[k].intent.isFlowComplete
        /\ base[msgs[k].sess].collectedParams = [flightNumber |-> "FL3940"]
        /\ objs[msgs[k].sess].collectedParams = [flightDate |-> "2024-05-01"]
        /\ objs[msgs[k].sess].currentStep = MaxStep

\* C11: once the turn of a completed BUY_TICKET or CHECK_IN flow whose
\* adapter call failed without a backend response has made its mutations and
\* replied, its session has activeFlow = NONE and currentStep = null.
ResetAfterTransportFailure ==
    \A k \in Slots :
        LET t == msgs[k]
        IN  (/\ Replied(t)
             /\ t.intent.action = "CONTINUE_FLOW"
             /\ t.intent.isFlowComplete
             /\ t.intent.flow \in {"BUY_TICKET", "CHECK_IN"}
             /\ t.outcome = "transport")
              => /\ objs[t.sess].activeFlow = NULL
                 /\ objs[t.sess].currentStep = NullStep

\* C11 witness: a BUY_TICKET flow was active, the call of its completion
\* failed without a response, and the turn has replied.
ResetAfterTransportFailureWitness ==
    \E k \in Slots :
        /\ msgs[k].pc = "saveReply"
        /\ IsCompletion(msgs[k].intent)
        /\ msgs[k].intent.flow = "BUY_TICKET"
        /\ msgs[k].outcome = "transport"
        /\ base[msgs[k].sess].activeFlow = "BUY_TICKET"
        /\ base[msgs[k].sess].currentStep = 1
        /\ objs[msgs[k].sess].activeFlow = NULL

\* C12: the reply of a completed BUY_TICKET or CHECK_IN flow whose adapter
\* call failed without a backend response is the composer's answer to the
\* request with the 'might have still succeeded' instruction.
AmbiguousPromptOnTransportFailure ==
    \A k \in Slots :
        LET t == msgs[k]
        IN  (/\ t.pc \in {"compose", "saveReply", "done"}
             /\ t.intent.action = "CONTINUE_FLOW"
             /\ t.intent.isFlowComplete
             /\ t.intent.flow \in {"BUY_TICKET", "CHECK_IN"}
             /\ t.outcome = "transport")
              => t.prompt = "ambiguous"

\* the outcome of the classifier call of the turn in slot k, in a step of it
ClassifierOutcome(k) ==
    IF msgs[k].pc = "classify" THEN msgs'[k].classifier ELSE msgs[k].classifier

\* C13: when the classifier call of a turn fails, the intent is CHAT with
\* the apology text; the turn makes no adapter call, none of its steps changes
\* activeFlow, currentStep or collectedParams of a session that still exists,
\* and it emits the apology, once, as its assistant message, which is pushed
\* to the session's history like any reply.
ClassifierFailureApologizes ==
    /\ [](\A k \in Slots :
            LET t == msgs[k]
            IN  t.classifier \in {"unavailable", "request_error", "unparsable"} =>
                  /\ t.intent.action = "CHAT"
                  /\ t.calls = << >>
                  /\ t.pc \in {"saveReply", "done"}
                  /\ t.emits = 1
                  /\ t.reply = "I'm sorry, I'm having trouble understanding right now. Could you try again or rephrase your request?"
                  /\ t.replyMsg \in Range(history[t.sess]))
    /\ [][\A k \in Slots :
            (Steps(k) /\ ClassifierOutcome(k) \in {"unavailable", "request_error", "unparsable"})
               => \A o \in Referenced(userSessions', msgs') : objs'[o] = objs[o]]_vars

\* C13 witness: the completion could not be parsed while a flow was active,
\* and the turn has emitted its reply.
ClassifierFailureWitness ==
    \E k \in Slots :
        /\ msgs[k].pc = "saveReply"
        /\ msgs[k].classifier = "unparsable"
        /\ msgs[k].emits = 1
        /\ objs[msgs[k].sess].activeFlow = "BUY_TICKET"
        /\ objs[msgs[k].sess].collectedParams = [flightNumber |-> "FL3940"]

\* C19: a turn makes at most one adapter call, whatever the intent and
\* whatever the outcome of the call: once the switch has dispatched, no step
\* of the turn adds a call, so a failed call is never followed by a second.
AtMostOneAdapterCall ==
    /\ [](\A k \in Slots : Len(msgs[k].calls) <= 1)
    /\ [][\A k \in Slots :
            (msgs[k].pc \in {"adapter", "compose", "saveReply"} /\ msgs'[k].pc # "none")
               => msgs'[k].calls = msgs[k].calls]_vars

\* C19 witness: the one call of a turn failed, and the turn has emitted its
\* reply with no further call.
AtMostOneAdapterCallWitness ==
    \E k \in Slots :
        /\ msgs[k].pc = "saveReply"
        /\ Len(msgs[k].calls) = 1
        /\ msgs[k].outcome = "transport"
        /\ msgs[k].calls[1].adapter = "bookTicket"

\* C14: a 'message' event on a connection without a session is dropped: the
\* step that logs it changes nothing else (no store write, no turn and so no
\* classifier call, adapter call or reply, the same registry), and no turn
\* ever starts for a socket that has no session.
MessageWithoutSessionDropped ==
    [][/\ (noSessionLogged' /\ ~noSessionLogged) =>
             UNCHANGED <<conn, userSessions, objs, msgs, base, history, stored,
                         ident, closed>>
       /\ \A k \in Slots :
             (msgs[k].pc = "none" /\ msgs'[k].pc # "none") =>
                 /\ userSessions[msgs'[k].sock] # NoSession
                 /\ msgs'[k].sess = userSessions[msgs'[k].sock]]_vars

\* C14 witness: a message has just been dropped on a connection never
\* identified, while the other connection of the user has a session and
\* stored messages.
MessageDroppedWitness ==
    /\ noSessionLogged
    /\ conn["s2"] = "open" /\ userSessions["s2"] = NoSession /\ ident["s2"].pc = "none"
    /\ userSessions["s1"] # NoSession
    /\ stored # {}

\* C15: a second identify on a connection that has a session leaves the
\* session's activeFlow, currentStep, collectedParams and history as they were.
IdentifyIdempotent ==
    [][\A s \in Sockets :
         (userSessions[s] # NoSession /\ ident[s].pc = "none" /\ ident'[s].pc = "load")
            => /\ FlowState(objs'[userSessions'[s]]) = FlowState(objs[userSessions[s]])
               /\ history'[userSessions'[s]] = history[userSessions[s]]]_vars

\* C16: when a session is opened after the user's previous session was
\* closed, the history the new session has once the stored history is loaded
\* equals the history the previous session had at close.
ReopenReproducesHistory ==
    [][\A s \in Sockets :
         (/\ ident[s].pc = "load" /\ ident'[s].pc = "saveWelcome"
          /\ ident[s].after # << >>)
            => history'[userSessions'[s]] = ident[s].after]_vars

\* C17: a disconnect removes the registry entry of its connection and no
\* other, changes no session of another connection, and leaves the stored
\* messages as they are.
DisconnectRemovesOnlyItsEntry ==
    [][\A s \in Sockets :
         (conn[s] = "open" /\ conn'[s] = "closed")
            => /\ userSessions' = [userSessions EXCEPT ![s] = NoSession]
               /\ \A r \in Sockets \ {s} :
                     userSessions[r] # NoSession =>
                        /\ objs'[userSessions[r]] = objs[userSessions[r]]
                        /\ history'[userSessions[r]] = history[userSessions[r]]
               /\ stored' = stored]_vars

\* C17 witness: the first connection was closed, the second has a session
\* running a turn, and messages are stored.
DisconnectWitness ==
    /\ conn["s1"] = "closed"
    /\ userSessions["s2"] # NoSession
    /\ msgs[1].pc = "classify" /\ msgs[1].sock = "s2"
    /\ Len(history[userSessions["s2"]]) >= 2
    /\ stored # {}

\* C18: when the handler of a turn ends, whatever the saves did, the turn's
\* user message and its reply are both in the conversationHistory of its
\* session, the classifier has been called and a reply has been emitted.
HistoryKeepsTurnMessages ==
    [][\A k \in Slots :
         Finishes(k) =>
            /\ msgs[k].userMsg \in Range(history[msgs[k].sess])
            /\ msgs[k].replyMsg \in Range(history[msgs[k].sess])
            /\ msgs[k].classifier # "none"
            /\ msgs[k].emits >= 1]_vars

DisconnectLeavesTurnsRunning ==
    /\ [](\A s \in Sockets : conn[s] = "closed" => userSessions[s] = NoSession)
    /\ [][\A s \in Sockets : conn[s] = "closed" => conn'[s] = "closed"]_vars
    /\ [][\A s \in Sockets :
            (conn[s] = "open" /\ conn'[s] = "closed") => msgs' = msgs]_vars

\* C21 witness: the connection is closed, its turn called an adapter and is
\* now waiting for the save of its reply.
DisconnectedTurnWitness ==
    \E k \in Slots :
        /\ msgs[k].pc = "saveReply"
        /\ msgs[k].calls # << >>
        /\ conn[msgs[k].sock] = "closed"
        /\ userSessions[msgs[k].sock] = NoSession

\* C26: a session whose activeFlow is null gets an active flow only by a
\* START_* intent; a CONTINUE_FLOW intent handled while activeFlow is null
\* leaves the session as it is and dispatches no adapter call.
FlowOpenedOnlyByStart ==
    [][\A k \in Slots :
         (/\ msgs[k].pc = "classify"
          /\ msgs'[k].pc # "classify"
          /\ objs[msgs[k].sess].activeFlow = NULL)
            => /\ objs'[msgs[k].sess].activeFlow # NULL
                    => msgs'[k].intent.action \in StartActions
               /\ msgs'[k].intent.action = "CONTINUE_FLOW"
                    => /\ objs'[msgs[k].sess] = objs[msgs[k].sess]
                       /\ msgs'[k].calls = << >>]_vars

\* C27: a CONTINUE_FLOW intent for another flow than the active one is
\* applied as it is: activeFlow becomes intent.flow, and the completion of a
\* known flow calls the adapter of intent.flow.
MismatchedContinueAccepted ==
    [][\A k \in Slots :
         (/\ msgs[k].pc = "classify"
          /\ msgs'[k].intent.action = "CONTINUE_FLOW"
          /\ objs[msgs[k].sess].activeFlow # NULL
          /\ msgs'[k].intent.flow # objs[msgs[k].sess].activeFlow)
            => LET i == msgs'[k].intent
               IN  /\ objs'[msgs[k].sess].activeFlow = i.flow
                   /\ (i.isFlowComplete /\ i.flow \in Flows)
                        => /\ Len(msgs'[k].calls) = 1
                           /\ msgs'[k].calls[1].adapter = AdapterOf(i.flow)]_vars

\* C27 witness: the session was in the booking flow, the completion named
\* the check-in flow, and the check-in adapter has been called.
MismatchedContinueWitness ==
    \E k \in Slots :
        /\ msgs[k].pc = "adapter"
        /\ IsCompletion(msgs[k].intent)
        /\ msgs[k].intent.flow = "CHECK_IN"
        /\ base[msgs[k].sess].activeFlow = "BUY_TICKET"
        /\ objs[msgs[k].sess].activeFlow = "CHECK_IN"
        /\ msgs[k].calls[1].adapter = "checkIn"

\* sequence a is a prefix of sequence b
IsPrefix(a, b) == Len(a) <= Len(b) /\ SubSeq(b, 1, Len(a)) = a

\* the identify handler of socket s replaces the session in this step
Reidentifies(s) == ident[s].pc = "none" /\ ident'[s].pc = "load"

\* C28: in every step the conversationHistory a session had is a prefix of
\* the one it has afterwards, also when a turn has appended to it while the
\* identify handler was awaiting the history load.
HistoryAppendOnly ==
    [][\A s \in Sockets :
         (/\ userSessions[s] # NoSession
          /\ userSessions'[s] = userSessions[s]
          /\ ~Reidentifies(s))
            => IsPrefix(history[userSessions[s]], history'[userSessions[s]])]_vars

\* C29: every assistant message a turn emits is pushed to the
\* conversationHistory of its session and handed to saveMessage in the same
\* step, the apology of the outer catch included.
EmittedRepliesAreKept ==
    [][\A k \in Slots :
         msgs'[k].emits > msgs[k].emits
            => /\ msgs'[k].replyMsg \in Range(history'[msgs'[k].sess])
               /\ msgs'[k].pc = "saveReply"]_vars

\* the identify handler of socket s ends in this step by the TypeError of
\* line 89: userSessions[socket.id] is undefined
IdentifyThrows(s) == ident[s].pc = "load" /\ ident'[s].pc = "none"

\* C30: after a disconnect during the history load the identify handler
\* ends without an error nothing handles, and no session is created or
\* touched by it.
IdentifyEndsQuietlyAfterDisconnect ==
    [][\A s \in Sockets :
         (ident[s].pc = "load" /\ conn[s] = "closed")
            => /\ ~IdentifyThrows(s)
               /\ ident'[s] # ident[s] => UNCHANGED <<userSessions, objs, history>>]_vars

\* C22: a turn that produces its reply after its connection was closed drops
\* it: the reply is not emitted and saveMessage is not called for it.
LateReplyDropped ==
    [][\A k \in Slots :
         (/\ InFlight(msgs[k])
          /\ msgs[k].pc # "saveReply"
          /\ conn[msgs[k].sock] = "closed")
            => /\ msgs'[k].emits = msgs[k].emits
               /\ msgs'[k].pc # "saveReply"]_vars

\* the step is one of connection r: an event of r arrives, or a handler
\* started by an event of r goes on
OwnStep(r) ==
    \/ conn'[r] # conn[r]
    \/ ident'[r] # ident[r]
    \/ \E k \in Slots : msgs[k].sock = r /\ InFlight(msgs[k]) /\ msgs'[k] # msgs[k]
    \/ \E k \in Slots : msgs[k].pc = "none" /\ msgs'[k].sock = r

IsError(r) == "thrown" \in DOMAIN r \/ "error" \in DOMAIN r
OutcomeOf(r) ==
    IF ~IsError(r) THEN "success"
    ELSE IF "statusCode" \in DOMAIN r THEN "domain" ELSE "transport"
Payload(r) == IF "value" \in DOMAIN r THEN r.value ELSE r.data

\* C23: the result of each adapter tells the three ways its request ended
\* apart: a success with the payload of the response, a domain error with
\* the status code of the rejection, a transport error when there was no
\* response.
AdapterOutcomesDistinct ==
    (call.pc = "returned" /\ call.reply # NoReply) =>
        LET r == call.result
        IN  /\ call.reply.kind = "response"
                 => OutcomeOf(r) = "success" /\ Payload(r) = call.reply.data
            /\ call.reply.kind = "rejection"
                 => OutcomeOf(r) = "domain" /\ r.statusCode = call.reply.status
            /\ call.reply.kind = "no_response" => OutcomeOf(r) = "transport"

\* C24: when the login of ensureAuthenticated fails, bookTicket and checkIn
\* send no request to the backend and end with a transport error.
LoginFailureEndsCall ==
    (call.adapter \in {"bookTicket", "checkIn"} /\ call.login \in LoginOutcomes \ {"token"}) =>
        /\ call.requests = << >>
        /\ call.pc = "returned"
        /\ OutcomeOf(call.result) = "transport"

(***************************************************************************)
(* The transcripts.  The container holds the messages of every user, one   *)
(* item per (userId, id): the partition key is /userId.  A message is the  *)
(* object a handler builds, with the id, userId, sender and timestamp it   *)
(* gives it; Date.now() is millis, and toString() keeps ids distinct       *)
(* exactly when the numbers are.                                           *)
(***************************************************************************)
Item(id, userId, sender, timestamp) ==
    [id |-> id, userId |-> userId, sender |-> sender, timestamp |-> timestamp]

\* the items of the partition of userId
ItemsOf(items, userId) == {m \in items : m.userId = userId}

\* container.items.create(message) is rejected for an id the partition has
Conflicts(items, m) == \E n \in items : n.id = m.id /\ n.userId = m.userId

\* saveMessage(message): null without a container and when create throws
Create(items, m, ok) ==
    IF ok /\ ~Conflicts(items, m) THEN items \cup {m} ELSE items

\* ORDER BY c.timestamp DESC: the orders the query can give, items of the
\* same timestamp in either order
RECURSIVE Descending(_)
Descending(S) ==
    IF S = {} THEN {<< >>}
    ELSE UNION {{<<m>> \o t : t \in Descending(S \ {m})} :
                  m \in {x \in S : \A y \in S : y.timestamp <= x.timestamp}}

\* items.reverse()
Reverse(s) == [i \in 1..Len(s) |-> s[Len(s) + 1 - i]]

\* ORDER BY c.timestamp ASC in place of DESC
QueryOldest(items, userId, limit, ok) ==
    IF ~ok THEN {<< >>}
    ELSE {SubSeq(Reverse(d), 1, IF Len(d) < limit THEN Len(d) ELSE limit) :
            d \in Descending(ItemsOf(items, userId))}

\* getConversationHistory(userId, limit): the results it can give
QueryHistory(items, userId, limit, ok) ==
    IF ~ok THEN {<< >>}
    ELSE {Reverse(SubSeq(d, 1, IF Len(d) < limit THEN Len(d) ELSE limit)) :
            d \in Descending(ItemsOf(items, userId))}

\* the welcome message of 'identify'
WelcomeMessage(userId) == Item(millis, userId, "assistant", millis)

\* the assistant message of the socket's message handler
AssistantMessage(userId) == Item(millis, userId, "assistant", millis)

\* the message objects a socket client sends: it writes the id, the sender,
\* the timestamp and the userId itself
ClientMessages == {Item(millis, u, "user", millis) : u \in Users}

\* a millisecond passes
MillisPass ==
    /\ millis < MaxMillis
    /\ millis' = millis + 1
    /\ UNCHANGED <<container, http, socketUser>>
    /\ UNCHANGED gatewayVars
    /\ UNCHANGED adapterVars

\* 'identify': socket.userId = userId, and the welcome message is saved
SocketIdentified(userId, ok) ==
    /\ Cardinality(container) < MaxItems
    /\ socketUser' = userId
    /\ container' = Create(container, WelcomeMessage(userId), ok)
    /\ UNCHANGED <<millis, http>>
    /\ UNCHANGED gatewayVars
    /\ UNCHANGED adapterVars

\* 'message': the message object of the client is saved as it came
SocketMessage(message, ok) ==
    /\ socketUser # NULL
    /\ Cardinality(container) < MaxItems
    /\ container' = Create(container, message, ok)
    /\ UNCHANGED <<millis, http, socketUser>>
    /\ UNCHANGED gatewayVars
    /\ UNCHANGED adapterVars

\* 'message': the assistant message is saved
SocketReplied(ok) ==
    /\ socketUser # NULL
    /\ Cardinality(container) < MaxItems
    /\ container' = Create(container, AssistantMessage(socketUser), ok)
    /\ UNCHANGED <<millis, http, socketUser>>
    /\ UNCHANGED gatewayVars
    /\ UNCHANGED adapterVars

\* getConversationHistory(userId, limit) is called and returns; ok: the
\* container is there and the query succeeded
HistoryQueried(userId, limit, ok) ==
    /\ \E found \in QueryHistory(container, userId, limit, ok) :
         http' = [NoRequest EXCEPT !.op = "getConversationHistory",
                                   !.pc = "done", !.userId = userId,
                                   !.limit = limit, !.available = ok,
                                   !.found = found]
    /\ UNCHANGED <<container, millis, socketUser>>
    /\ UNCHANGED gatewayVars
    /\ UNCHANGED adapterVars

\* DELETE /api/history: deleteConversationHistory(userId) waits for every
\* delete with Promise.allSettled and returns true; false without a
\* container and when the query of the ids throws.  failed: the items whose
\* delete was rejected
HistoryDeleted(userId, ok, failed) ==
    /\ failed \subseteq ItemsOf(container, userId)
    /\ container' = IF ok THEN container \ (ItemsOf(container, userId) \ failed)
                    ELSE container
    /\ http' = [NoRequest EXCEPT !.op = "deleteConversationHistory",
                                 !.pc = "done", !.userId = userId,
                                 !.deleted = ok,
                                 !.status = IF ok THEN "200" ELSE "500"]
    /\ UNCHANGED <<millis, socketUser>>
    /\ UNCHANGED gatewayVars
    /\ UNCHANGED adapterVars

(***************************************************************************)
(* POST /api/chat, cut at its awaits.  saveMessage is answered at once.    *)
(***************************************************************************)
\* const conversationState = {}
RestState ==
    [activeFlow |-> NULL, currentStep |-> NullStep, collectedParams |-> EmptyParams]

\* the intents the classifier answers a REST request with
RestIntents == AsyncIntents

RestFallback == "I'm sorry, I'm not able to process that request right now. Could you try again or rephrase your request?"

\* faulty variant of RestDispatchOf: a completed flow is dispatched as well
RestDispatchOfCompletions(intent) ==
    CASE intent.action \in Flows ->
            << [adapter |-> AdapterOf(intent.action), params |-> intent.parameters] >>
      [] IsCompletion(intent) /\ intent.flow \in Flows ->
            << [adapter |-> AdapterOf(intent.flow), params |-> intent.collectedParams] >>
      [] OTHER -> << >>

\* the adapter calls of the if chain: a single-shot action only
RestDispatchOf(intent) ==
    IF intent.action \in Flows
    THEN << [adapter |-> AdapterOf(intent.action), params |-> intent.parameters] >>
    ELSE << >>

\* responseContent of the branches without an adapter call
RestContent(intent) ==
    IF intent.action = "CHAT" THEN intent.response ELSE RestFallback

\* the assistant message of the REST handler
RestAssistantMessage(userId) == Item(millis + 1, userId, "bot", millis)

\* the assistant message is built and saved, and the response is sent
Respond(h, content, ok) ==
    LET assistantMessage == RestAssistantMessage(h.userId)
    IN  /\ container' = Create(container, assistantMessage, ok)
        /\ http' = [h EXCEPT !.pc = "done", !.content = content,
                             !.status = "200", !.message = assistantMessage,
                             !.body = h.found \o <<h.userMessage, assistantMessage>>]

\* a request without message or userId is answered 400
RestRejected ==
    /\ http.pc \in {"idle", "done"}
    /\ http' = [NoRequest EXCEPT !.op = "chat", !.pc = "done", !.status = "400"]
    /\ UNCHANGED <<container, millis, socketUser>>
    /\ UNCHANGED gatewayVars
    /\ UNCHANGED adapterVars

\* a request arrives: the user message is built and saved
RestChat(userId, ok) ==
    /\ http.pc \in {"idle", "done"}
    /\ Cardinality(container) + 2 <= MaxItems
    /\ LET userMessage == Item(millis, userId, "user", millis)
       IN  /\ container' = Create(container, userMessage, ok)
           /\ http' = [NoRequest EXCEPT !.op = "chat", !.pc = "history",
                                        !.userId = userId,
                                        !.userMessage = userMessage]
    /\ UNCHANGED <<millis, socketUser>>
    /\ UNCHANGED gatewayVars
    /\ UNCHANGED adapterVars

\* getConversationHistory(userId) returned
RestHistoryLoaded(ok) ==
    /\ http.op = "chat"
    /\ http.pc = "history"
    /\ \E found \in QueryHistory(container, http.userId, HistoryLimit, ok) :
         http' = [http EXCEPT !.pc = "classify", !.found = found]
    /\ UNCHANGED <<container, millis, socketUser>>
    /\ UNCHANGED gatewayVars
    /\ UNCHANGED adapterVars

\* detectIntent(message, {}) returned: null makes intent.action throw, which
\* the outer catch answers 500
RestClassified(outcome, parsed, ok) ==
    /\ http.op = "chat"
    /\ http.pc = "classify"
    /\ LET left == ParseOutcome(outcome, RestState)
           intent == DetectIntent(left, parsed)
           calls == RestDispatchOf(intent)
           h == [http EXCEPT !.state = RestState, !.intent = intent,
                             !.calls = calls]
       IN  CASE left = NoContent ->
                  /\ http' = [http EXCEPT !.state = RestState, !.pc = "done",
                                          !.status = "500"]
                  /\ UNCHANGED container
             [] left # NoContent /\ calls # << >> ->
                  /\ http' = [h EXCEPT !.pc = "adapter"]
                  /\ UNCHANGED container
             [] OTHER -> Respond(h, RestContent(intent), ok)
    /\ UNCHANGED <<millis, socketUser>>
    /\ UNCHANGED gatewayVars
    /\ UNCHANGED adapterVars

\* the adapter returned or threw: generateResponse is called on the result
\* or on the error
RestAdapterReturned ==
    /\ http.op = "chat"
    /\ http.pc = "adapter"
    /\ http' = [http EXCEPT !.pc = "compose"]
    /\ UNCHANGED <<container, millis, socketUser>>
    /\ UNCHANGED gatewayVars
    /\ UNCHANGED adapterVars

\* generateResponse returned
RestComposed(ok) ==
    /\ http.op = "chat"
    /\ http.pc = "compose"
    /\ Respond(http, Composed, ok)
    /\ UNCHANGED <<millis, socketUser>>
    /\ UNCHANGED gatewayVars
    /\ UNCHANGED adapterVars

NextRest ==
    \/ MillisPass
    \/ RestRejected
    \/ \E userId \in Users, ok \in BOOLEAN : RestChat(userId, ok)
    \/ \E ok \in BOOLEAN : RestHistoryLoaded(ok)
    \/ \E intent \in RestIntents, ok \in BOOLEAN : RestClassified("ok", intent, ok)
    \/ \E failure \in ClassifierFailures, ok \in BOOLEAN :
         RestClassified(failure, NoIntent, ok)
    \/ \E ok \in BOOLEAN : RestClassified(NoContent, NoIntent, ok)
    \/ RestAdapterReturned
    \/ \E ok \in BOOLEAN : RestComposed(ok)

SpecRest == Init /\ [][NextRest]_vars

NextTranscript ==
    \/ MillisPass
    \/ \E userId \in Users, ok \in BOOLEAN : SocketIdentified(userId, ok)
    \/ \E message \in ClientMessages, ok \in BOOLEAN : SocketMessage(message, ok)
    \/ \E ok \in BOOLEAN : SocketReplied(ok)
    \/ \E userId \in Users, limit \in Limits, ok \in BOOLEAN :
         HistoryQueried(userId, limit, ok)
    \/ \E userId \in Users, ok \in BOOLEAN :
         \E failed \in SUBSET ItemsOf(container, userId) :
           HistoryDeleted(userId, ok, failed)

SpecTranscript == Init /\ [][NextTranscript]_vars

\* C31: the reset at the end of a completion leaves alone the flow a START_*
\* intent of a later message has started in the session while the adapter or
\* the composer call of the completion was pending: after the step of the
\* completion turn that flow is still active, with currentStep = 1.
LaterStartSurvivesCompletion ==
    [][\A k, j \in Slots :
         (/\ k < j
          /\ msgs[k].pc \in {"adapter", "compose"}
          /\ msgs'[k] # msgs[k]
          /\ IsCompletion(msgs[k].intent)
          /\ msgs[j].sess = msgs[k].sess
          /\ msgs[j].intent.action \in StartActions
          /\ objs[msgs[k].sess].activeFlow = StartedFlow(msgs[j].intent.action)
          /\ objs[msgs[k].sess].currentStep = 1)
            => /\ objs'[msgs[k].sess].activeFlow = StartedFlow(msgs[j].intent.action)
               /\ objs'[msgs[k].sess].currentStep = 1]_vars

\* C32: while the turn of an accepted completion is at its adapter or
\* composer call, the classifier is not called for another message of the
\* session with the completed flow still active, and no other turn of the
\* session completes and dispatches the same flow.
NoSecondCompletion ==
    [][\A k, j \in Slots :
         (/\ k # j
          /\ msgs[k].pc \in {"adapter", "compose"}
          /\ IsCompletion(msgs[k].intent)
          /\ msgs[k].intent.flow \in Flows
          /\ msgs[j].sess = msgs[k].sess)
            => /\ (msgs[j].pc = "saveUser" /\ msgs'[j].pc = "classify")
                    => objs'[msgs[k].sess].activeFlow # msgs[k].intent.flow
               /\ (msgs[j].pc = "classify" /\ msgs'[j].pc # "classify")
                    => ~(/\ IsCompletion(msgs'[j].intent)
                         /\ msgs'[j].intent.flow = msgs[k].intent.flow
                         /\ msgs'[j].calls # << >>)]_vars

\* C35: an adapter sends its request to the backend only after
\* ensureAuthenticated has run, and ensureAuthenticated sends a login
\* request exactly when no token is stored or the stored one has expired.
AuthenticatedBeforeRequest ==
    /\ [](call.requests # << >> => call.login # "none")
    /\ [][(call.pc = "idle" /\ call'.pc # "idle")
             => (call'.pc = "login" <=> ~TokenValid)]_vars
\* C33: getConversationHistory(userId, limit) returns messages of that user
\* only, at most limit of them, the most recent ones by timestamp, ordered
\* from the oldest to the newest; it returns the empty list when the store
\* is unavailable or the query fails.
HistoryIsRecentTail ==
    [][(http' # http /\ http'.op = "getConversationHistory")
          => LET h == http'.found
                 mine == ItemsOf(container, http'.userId)
                 n == Cardinality(mine)
             IN  IF ~http'.available THEN h = << >>
                 ELSE /\ \A i \in 1..Len(h) : h[i] \in mine
                      /\ \A i, j \in 1..Len(h) :
                           i < j => h[i] # h[j] /\ h[i].timestamp <= h[j].timestamp
                      /\ Len(h) = IF n < http'.limit THEN n ELSE http'.limit
                      /\ \A m \in mine :
                           (\A i \in 1..Len(h) : h[i] # m)
                              => \A i \in 1..Len(h) : m.timestamp <= h[i].timestamp]_vars

\* a user with three messages is answered the two most recent, while the
\* other user has a message too
RecentTailWitness ==
    /\ http.op = "getConversationHistory"
    /\ http.available
    /\ http.limit = 2
    /\ Len(http.found) = 2
    /\ Cardinality(ItemsOf(container, http.userId)) = 3
    /\ \A i \in 1..2 : http.found[i] \in container
    /\ \E m \in container : m.userId # http.userId
\* C34: when deleteConversationHistory(userId) returns true (DELETE
\* /api/history answers 200) no message of that userId remains in the store,
\* and when a message could not be deleted it returns false (500).
DeletedMeansGone ==
    [][(/\ http'.op = "deleteConversationHistory"
        /\ container' \subseteq container
        /\ http' # http \/ container' # container)
          => LET left == ItemsOf(container', http'.userId)
             IN  /\ http'.deleted => left = {}
                 /\ left # {} => ~http'.deleted /\ http'.status = "500"]_vars
\* C36: the REST chat endpoint keeps no flow state: a request leaves the
\* session registry alone, the classifier is called with the empty state,
\* and for a START_* or CONTINUE_FLOW intent no adapter is called and the
\* answer is the fallback text, so that no sequence of REST requests
\* completes a multi-turn flow.
RestKeepsNoFlowState ==
    /\ [](http.op = "chat" =>
            /\ http.state \in {NoState, RestState}
            /\ http.intent.action \in StartActions \cup {"CONTINUE_FLOW"} =>
                 /\ http.calls = << >>
                 /\ http.pc = "done" => http.content = RestFallback)
    /\ [][http' # http => userSessions' = userSessions /\ objs' = objs]_vars

\* the second request of a user is classified as the completion of a flow and
\* answered with the fallback text
RestFallbackWitness ==
    /\ http.op = "chat"
    /\ http.pc = "done"
    /\ http.status = "200"
    /\ http.state = RestState
    /\ IsCompletion(http.intent)
    /\ http.calls = << >>
    /\ http.content = RestFallback
    /\ Cardinality(ItemsOf(container, http.userId)) = 4
\* C37: the history POST /api/chat returns holds every message at most once:
\* the user message of the request and its reply are there exactly once, as
\* the last two entries, after the earlier messages.
RestHistoryWithoutRepeats ==
    (http.op = "chat" /\ http.status = "200") =>
        LET h == http.body
            n == Len(h)
        IN  /\ \A i, j \in 1..n : i < j => h[i] # h[j]
            /\ n >= 2
            /\ h[n - 1] = http.userMessage
            /\ h[n] = http.message

\* C38: every message written to the store has sender 'user' or
\* 'assistant'.
SendersAreUserOrAssistant ==
    \A m \in container : m.sender \in {"user", "assistant"}

\* C39: two distinct messages the gateway built for the same userId have
\* different ids, also when they were built in the same millisecond or one
\* millisecond apart, so that no message is rejected for its id.
GatewayIdsDistinct ==
    \A m \in container :
        /\ (/\ http.op = "chat"
            /\ http.userMessage # NoItem
            /\ m.userId = http.userId
            /\ m.id = http.userMessage.id) => m = http.userMessage
        /\ (/\ http.op = "chat"
            /\ http.message # NoItem
            /\ m.userId = http.userId
            /\ m.id = http.message.id) => m = http.message

\* C40: every message written to the store through a socket session carries
\* the userId the session was identified with.
SocketMessagesCarrySessionUser ==
    [][http' = http
          => \A m \in container' \ container : m.userId = socketUser']_vars

====
